---- MODULE Spec2Model ----
(***************************************************************************)
(* Model of hack/code/prices_gen.go: the pricing table generator.          *)
(*                                                                         *)
(* Strings and byte buffers are sequences of byte values (ASCII codes), so *)
(* that sorting, splitting, formatting and line lengths are computed and   *)
(* not assumed.  A float64 price is represented by a natural number of     *)
(* millionths (85000 stands for 0.085), the precision "%f" prints.         *)
(***************************************************************************)
EXTENDS Integers, Sequences, FiniteSets, TLC

\* ------------------------------------------------------------------ bounds
MaxNames == 3      \* length of the instanceNames slice handed to writePricing
MaxBuf   == 4      \* length of the buffer handed to newline directly
MaxArgs  == 2      \* number of positional command-line arguments
MaxClock == 3      \* clock readings (seconds) a run of main may see
MaxTypes == 2      \* length of the slice the provider's InstanceTypes returns

\* ------------------------------------------------------- bytes and literals
NL    == 10        \* '\n'
Dot   == 46        \* '.'
Quote == 34        \* '"'
Slash == 47        \* '/'
WrapAt == 80       \* the soft wrap column

VarPrefix     == <<118, 97, 114, 32>>                        \* "var "
VarSuffix     == <<32, 61, 32, 109, 97, 112, 91, 115, 116, 114, 105, 110, 103,
                   93, 102, 108, 111, 97, 116, 54, 52, 123, 10>>
                                                 \* " = map[string]float64{\n"
CommentPrefix == <<Slash, Slash, 32>>                        \* "// "
CommentSuffix == <<32, 102, 97, 109, 105, 108, 121, NL>>     \* " family\n"
EntryMid      == <<Quote, 58>>                               \* "\":"
EntrySep      == <<44, 32>>                                  \* ", "
Closing       == <<NL, 125, NL>>                \* Fprintln(src, "\n}") = "\n}\n"

\* the names and identifiers the runs draw their inputs from
InitialOnDemandPrices == <<105, 110, 105, 116, 105, 97, 108, 79, 110, 68, 101,
                           109, 97, 110, 100, 80, 114, 105, 99, 101, 115>>
IdAB     == <<97, Dot, 98>>                                  \* "a.b"
IdALong  == <<97, Dot, 120, 120, 120, 120, 120, 120, 120, 120, 120, 120, 120,
              120, 120, 120, 120, 120, 120, 120, 120, 120, 120, 120, 120, 120,
              120, 120, 120, 120, 120, 120>>                 \* "a." + 30 * "x"
IdDashBC == <<97, 45, 98, Dot, 99>>                          \* "a-b.c"
IdEmptyB == <<Dot, 98>>                                      \* ".b"
IdNoDot  == <<97, 98>>                                       \* "ab"
IdTwoDot == <<97, Dot, 98, Dot, 99>>                         \* "a.b.c"

WellFormedIds == {IdAB, IdALong, IdDashBC, IdEmptyB}
MalformedIds  == {IdNoDot, IdTwoDot}
Ids           == WellFormedIds \cup MalformedIds

\* what getPrice returns: (price, nil) or (0, err)
Found(price) == [price |-> price, err |-> FALSE]
NotFound     == [price |-> 0, err |-> TRUE]

\* the price list the lookups read: 0.085 for the short names, 12.34 for the
\* others (malformed names have prices too: the lookup does not parse them)
PriceList == [n \in Ids |-> IF Len(n) <= 3 THEN 85000 ELSE 12340000]

\* the getPrice functions over the names D: any part of the price list may be
\* missing, and a missing price is an error
Lookups(D) ==
    {[n \in D |-> IF n \in S THEN Found(PriceList[n]) ELSE NotFound] : S \in SUBSET D}

\* what the provider's InstanceTypes may return, and the buffers writePricing
\* and newline are handed
ProviderTypes == {IdAB, IdALong, IdTwoDot, IdNoDot}
CallerBuffers == {<<>>, <<120>>}
BufferBytes   == {NL, 120}

\* ---------------------------------------------------------------- helpers
SeqsUpTo(S, n) == UNION {[1..k -> S] : k \in 0..n}

Range(s) == {s[i] : i \in 1..Len(s)}

Last(s) == s[Len(s)]

\* bytes.Compare order of two strings: s < t
RECURSIVE LexLess(_, _)
LexLess(s, t) ==
    IF Len(t) = 0 THEN FALSE
    ELSE IF Len(s) = 0 THEN TRUE
    ELSE IF s[1] # t[1] THEN s[1] < t[1]
    ELSE LexLess(Tail(s), Tail(t))

\* sort.Strings: the slice in ascending byte-wise order (the result of any
\* correct sort of strings is this one sequence), computed by insertion.
RECURSIVE Insert(_, _)
Insert(sorted, x) ==
    IF Len(sorted) = 0 THEN <<x>>
    ELSE IF LexLess(x, sorted[1]) THEN <<x>> \o sorted
    ELSE <<sorted[1]>> \o Insert(Tail(sorted), x)

RECURSIVE SortByInsertion(_)
SortByInsertion(names) ==
    IF Len(names) = 0 THEN <<>>
    ELSE Insert(SortByInsertion(Tail(names)), names[1])

SortStrings_Unsorted(names) == names

SortStrings(names) == SortByInsertion(names)

\* the positions of byte b in s, in order
Positions(s, b) == SelectSeq([i \in 1..Len(s) |-> i], LAMBDA i : s[i] = b)

\* strings.Split(s, sep) for a one-byte separator: the segments between the
\* occurrences of sep (one more segment than there are separators).
Split(s, sep) ==
    LET at == Positions(s, sep)
        from(j) == IF j = 1 THEN 1 ELSE at[j - 1] + 1
        to(j) == IF j = Len(at) + 1 THEN Len(s) ELSE at[j] - 1
    IN  [j \in 1..(Len(at) + 1) |-> SubSeq(s, from(j), to(j))]

\* decimal digits of a natural number
RECURSIVE Digits(_)
Digits(n) ==
    IF n < 10 THEN <<48 + n>>
    ELSE Append(Digits(n \div 10), 48 + (n % 10))

\* the k low decimal digits of n, zero padded
RECURSIVE PadDigits(_, _)
PadDigits(n, k) ==
    IF k = 0 THEN <<>>
    ELSE Append(PadDigits(n \div 10, k - 1), 48 + (n % 10))

\* fmt's %f of a non-negative price: integer part, '.', six decimals
FormatF(price) ==
    Digits(price \div 1000000) \o <<Dot>> \o PadDigits(price % 1000000, 6)

\* Fprintf(src, `"%s":%f, `, instanceName, price): the bytes written
Entry(instanceName, price) ==
    <<Quote>> \o instanceName \o EntryMid \o FormatF(price) \o EntrySep

\* Fprintf(src, "// %s family\n", family): the bytes written
Comment(family) == CommentPrefix \o family \o CommentSuffix

\* --------------------------------------------------------------- newline
Newline_AppendsWhenEmpty(contents) ==
    IF Len(contents) = 0 THEN <<NL>>
    ELSE IF Last(contents) = NL THEN contents
    ELSE Append(contents, NL)

\* newline(src): the buffer afterwards.  On an empty buffer the code calls
\* fmt.Println(src), which prints to standard output (see NewlineStdout) and
\* leaves the buffer as it is.
Newline(contents) ==
    IF Len(contents) = 0 THEN contents
    ELSE IF Last(contents) = NL THEN contents
    ELSE Append(contents, NL)

\* what newline(src) prints to standard output: the buffer's (empty) text and
\* a line break, on an empty buffer only
NewlineStdout(contents) ==
    IF Len(contents) = 0 THEN contents \o <<NL>> ELSE <<>>

\* ---------------------------------------------------------- writePricing
\* The loop's variables: the buffer, lineLen, previousFamily, whether
\* log.Fatalf ended the process, and what went to standard output.
EnterState(buf, varName) ==
    [src |-> buf \o VarPrefix \o varName \o VarSuffix,
     lineLen |-> 0,
     previousFamily |-> <<>>,
     fatal |-> FALSE,
     stdout |-> <<>>]

FamilyBreak_KeepsLineLen(st, family) ==
    IF family # st.previousFamily
    THEN [st EXCEPT !.previousFamily = family,
                    !.src = Newline(st.src) \o Comment(family),
                    !.stdout = st.stdout \o NewlineStdout(st.src)]
    ELSE st

\* lines 109-115: the family comment
FamilyBreak(st, family) ==
    IF family # st.previousFamily
    THEN [st EXCEPT !.previousFamily = family,
                    !.src = Newline(st.src) \o Comment(family),
                    !.stdout = st.stdout \o NewlineStdout(st.src),
                    !.lineLen = 0]
    ELSE st

\* lines 117-125: the entry and the soft wrap
EmitEntry(st, instanceName, price) ==
    LET e == Entry(instanceName, price)
        n == Len(e)
        len == st.lineLen + n
    IN  IF len > WrapAt
        THEN [st EXCEPT !.src = st.src \o e \o <<NL>>, !.lineLen = 0]
        ELSE [st EXCEPT !.src = st.src \o e, !.lineLen = len]

LoopBody_LookupFirst(st, instanceName, getPrice) ==
    LET segs == Split(instanceName, Dot) IN
    IF getPrice[instanceName].err THEN st
    ELSE IF Len(segs) # 2 THEN [st EXCEPT !.fatal = TRUE]
    ELSE EmitEntry(FamilyBreak(st, segs[1]), instanceName,
                   getPrice[instanceName].price)

LoopBody_CommentBeforeLookup(st, instanceName, getPrice) ==
    LET segs == Split(instanceName, Dot) IN
    IF Len(segs) # 2 THEN [st EXCEPT !.fatal = TRUE]
    ELSE IF getPrice[instanceName].err THEN FamilyBreak(st, segs[1])
    ELSE EmitEntry(FamilyBreak(st, segs[1]), instanceName,
                   getPrice[instanceName].price)

\* lines 98-126: one iteration of the range loop
LoopBody(st, instanceName, getPrice) ==
    LET segs == Split(instanceName, Dot) IN
    IF Len(segs) # 2 THEN [st EXCEPT !.fatal = TRUE]
    ELSE IF getPrice[instanceName].err THEN st
    ELSE EmitEntry(FamilyBreak(st, segs[1]), instanceName,
                   getPrice[instanceName].price)

\* lines 127-128: Fprintln(src, "\n}") and Fprintln(src)
Finish(st) == [st EXCEPT !.src = st.src \o Closing \o <<NL>>]

\* the loop from position i on; log.Fatalf ends the run where it happens
RECURSIVE RunLoop(_, _, _, _)
RunLoop(st, names, i, getPrice) ==
    IF st.fatal THEN st
    ELSE IF i > Len(names) THEN Finish(st)
    ELSE RunLoop(LoopBody(st, names[i], getPrice), names, i + 1, getPrice)

\* writePricing(src, instanceNames, varName, getPrice), start to end
WritePricing(buf, instanceNames, varName, getPrice) ==
    RunLoop(EnterState(buf, varName), SortStrings(instanceNames), 1, getPrice)

\* ------------------------------------------------------------------ main
\* time.Time.After
After_OrEqual(t, u) == t >= u

After(t, u) == t > u

\* line 38: flag.NArg() != 1
UsageError_MissingOnly(n) == n < 1

UsageError(n) == n # 1

\* time.Now().UTC().Format(time.RFC3339) of a clock reading below a minute
FormatRFC3339(t) ==
    <<49, 57, 55, 48, 45, 48, 49, 45, 48, 49, 84, 48, 48, 58, 48, 48, 58>>
    \o PadDigits(t, 2) \o <<90>>                   \* "1970-01-01T00:00:ssZ"

\* lines 66-72: the header written before the table
Header(now) ==
    <<47, 47, 103, 111, 58, 98, 117, 105, 108, 100, 32, 33, 105, 103, 110, 111,
      114, 101, 95, 97, 117, 116, 111, 103, 101, 110, 101, 114, 97, 116, 101,
      100, NL>>                          \* "//go:build !ignore_autogenerated\n"
    \o <<112, 97, 99, 107, 97, 103, 101, 32, 97, 119, 115, NL>>
                                                           \* "package aws\n"
    \o <<105, 109, 112, 111, 114, 116, 32, Quote, 116, 105, 109, 101, Quote,
         NL>>                                          \* "import \"time\"\n"
    \o <<47, 47, 32, 103, 101, 110, 101, 114, 97, 116, 101, 100, 32, 97, 116,
         32>> \o FormatRFC3339(now)                     \* "// generated at "
    \o <<32, 102, 111, 114, 32, 117, 115, 45, 101, 97, 115, 116, 45, 49, NL,
         NL, NL>>                                    \* " for us-east-1\n\n\n"
    \o <<118, 97, 114, 32, 105, 110, 105, 116, 105, 97, 108, 80, 114, 105, 99,
         101, 85, 112, 100, 97, 116, 101, 44, 32, 95, 32, 61, 32, 116, 105,
         109, 101, 46, 80, 97, 114, 115, 101, 40, 116, 105, 109, 101, 46, 82,
         70, 67, 51, 51, 51, 57, 44, 32, Quote>>
              \* "var initialPriceUpdate, _ = time.Parse(time.RFC3339, \""
    \o FormatRFC3339(now) \o <<Quote, NL>>

\* ------------------------------------------------------------------ state
VARIABLES
    pc,                   \* where the process (or the call under test) is
    src,                  \* the bytes.Buffer
    instanceNames,        \* the slice writePricing ranges over
    getPrice,             \* the lookup function handed to writePricing
    idx,                  \* position of the range loop
    lineLen,
    previousFamily,
    stdout,               \* bytes written to standard output
    call,                 \* the arguments the call under test was made with
    nargs,                \* flag.NArg()
    exitCode,             \* the process's exit status, -1 while it runs
    logged,               \* the message handed to the log package last
    heapFile,             \* pricing.heapprofile: absent, created or written
    outFile,              \* flag.Arg(0): absent, partial or written
    providerBuilt,        \* NewPricingProvider has been called
    updateStarted,
    clock,                \* what time.Now() returns
    onDemandLastUpdated,
    spotLastUpdated,
    renderCount           \* calls of writePricing made by main

renderVars == <<src, instanceNames, getPrice, idx, lineLen, previousFamily,
                stdout, call>>
mainVars   == <<nargs, exitCode, logged, heapFile, outFile, providerBuilt,
                updateStarted, clock, onDemandLastUpdated, spotLastUpdated,
                renderCount>>
vars       == <<pc, renderVars, mainVars>>

NoCall == [fn |-> "none"]

\* the process's state before main runs, apart from pc and nargs
ProcessStart ==
    /\ exitCode = -1
    /\ logged = "none"
    /\ heapFile = "absent"
    /\ outFile = "absent"
    /\ providerBuilt = FALSE
    /\ updateStarted = 0
    /\ clock = 0
    /\ onDemandLastUpdated = 0
    /\ spotLastUpdated = 0
    /\ renderCount = 0

\* ------------------------------------------- writePricing and newline alone
\* A call of writePricing on any slice of names, or of newline on any buffer.
InitRender ==
    /\ ProcessStart
    /\ nargs = 1
    /\ idx = 0
    /\ lineLen = 0
    /\ previousFamily = <<>>
    /\ stdout = <<>>
    /\ \/ /\ pc = "wp_call"
          /\ src \in CallerBuffers
          /\ instanceNames \in SeqsUpTo(Ids, MaxNames)
          /\ getPrice \in Lookups(Range(instanceNames))
          /\ call = [fn |-> "writePricing", src |-> src,
                     instanceNames |-> instanceNames,
                     varName |-> InitialOnDemandPrices]
       \/ /\ pc = "nl_call"
          /\ src \in SeqsUpTo(BufferBytes, MaxBuf)
          /\ instanceNames = <<>>
          /\ getPrice = <<>>
          /\ call = [fn |-> "newline", src |-> src]

LoopState == [src |-> src, lineLen |-> lineLen, previousFamily |-> previousFamily,
              fatal |-> FALSE, stdout |-> stdout]

\* lines 94-97: the declaration line, the sort, the loop's variables
WpEnter ==
    /\ pc = "wp_call"
    /\ LET st == EnterState(src, call.varName) IN
        /\ src' = st.src
        /\ lineLen' = st.lineLen
        /\ previousFamily' = st.previousFamily
    /\ instanceNames' = SortStrings(instanceNames)
    /\ idx' = 1
    /\ pc' = "wp_loop"
    /\ UNCHANGED <<getPrice, stdout, call, mainVars>>

\* lines 98-126: one iteration; log.Fatalf ends the process
WpIterate ==
    /\ pc = "wp_loop"
    /\ idx <= Len(instanceNames)
    /\ LET st == LoopBody(LoopState, instanceNames[idx], getPrice) IN
        /\ src' = st.src
        /\ lineLen' = st.lineLen
        /\ previousFamily' = st.previousFamily
        /\ stdout' = st.stdout
        /\ IF st.fatal
           THEN /\ pc' = "wp_fatal"
                /\ exitCode' = 1
                /\ logged' = "parsing instance family"
                /\ idx' = idx
           ELSE /\ pc' = "wp_loop"
                /\ idx' = idx + 1
                /\ UNCHANGED <<exitCode, logged>>
    /\ UNCHANGED <<instanceNames, getPrice, call, nargs, heapFile, outFile,
                   providerBuilt, updateStarted, clock, onDemandLastUpdated,
                   spotLastUpdated, renderCount>>

\* lines 127-129: the closing lines and the return
WpReturn ==
    /\ pc = "wp_loop"
    /\ idx > Len(instanceNames)
    /\ src' = Finish(LoopState).src
    /\ pc' = "wp_done"
    /\ UNCHANGED <<instanceNames, getPrice, idx, lineLen, previousFamily, stdout,
                   call, mainVars>>

\* lines 132-144: a call of newline
NlCall ==
    /\ pc = "nl_call"
    /\ src' = Newline(src)
    /\ stdout' = stdout \o NewlineStdout(src)
    /\ pc' = "nl_done"
    /\ UNCHANGED <<instanceNames, getPrice, idx, lineLen, previousFamily, call,
                   mainVars>>

NextRender == WpEnter \/ WpIterate \/ WpReturn \/ NlCall

SpecRender == InitRender /\ [][NextRender]_vars

\* ---------------------------------------------------------------- main
Init ==
    /\ ProcessStart
    /\ pc = "main"
    /\ nargs \in 0..MaxArgs
    /\ src = <<>>
    /\ instanceNames = <<>>
    /\ getPrice = <<>>
    /\ idx = 0
    /\ lineLen = 0
    /\ previousFamily = <<>>
    /\ stdout = <<>>
    /\ call = NoCall

\* log.Fatal, log.Fatalf: the message, then os.Exit(1)
Fatal(message) ==
    /\ logged' = message
    /\ exitCode' = 1
    /\ pc' = "exited"

\* lines 37-41: the argument count (no flag is defined: the command line
\* holds positional arguments only)
ParseArgs ==
    /\ pc = "main"
    /\ IF UsageError(nargs)
       THEN /\ logged' = "Usage"
            /\ exitCode' = 1
            /\ pc' = "exited"
       ELSE /\ pc' = "create_profile"
            /\ UNCHANGED <<logged, exitCode>>
    /\ UNCHANGED <<renderVars, nargs, heapFile, outFile, providerBuilt,
                   updateStarted, clock, onDemandLastUpdated, spotLastUpdated,
                   renderCount>>

\* lines 43-47: os.Create("pricing.heapprofile"), which may fail
CreateProfile ==
    /\ pc = "create_profile"
    /\ \E ok \in BOOLEAN :
          IF ok
          THEN /\ heapFile' = "created"
               /\ pc' = "new_provider"
               /\ UNCHANGED <<logged, exitCode>>
          ELSE /\ Fatal("could not create memory profile")
               /\ UNCHANGED heapFile
    /\ UNCHANGED <<renderVars, nargs, outFile, providerBuilt, updateStarted,
                   clock, onDemandLastUpdated, spotLastUpdated, renderCount>>

\* lines 49-56: session.Must panics when no session can be made; otherwise
\* the start time is read, then the provider is constructed; its two
\* timestamps start at some time that is not after the clock
NewProvider ==
    /\ pc = "new_provider"
    /\ \/ /\ logged' = "panic"
          /\ exitCode' = 2
          /\ pc' = "exited"
          /\ UNCHANGED <<updateStarted, providerBuilt, onDemandLastUpdated,
                         spotLastUpdated>>
       \/ /\ updateStarted' = clock
          /\ providerBuilt' = TRUE
          /\ onDemandLastUpdated' \in 0..clock
          /\ spotLastUpdated' \in 0..clock
          /\ pc' = "poll"
          /\ UNCHANGED <<logged, exitCode>>
    /\ UNCHANGED <<renderVars, nargs, heapFile, outFile, clock, renderCount>>

\* line 59, left operand: OnDemandLastUpdated().After(updateStarted)
PollOnDemand ==
    /\ pc = "poll"
    /\ pc' = IF After(onDemandLastUpdated, updateStarted)
             THEN "poll_spot"
             ELSE "sleep"
    /\ UNCHANGED <<renderVars, mainVars>>

\* line 59, right operand, and the break of line 60
PollSpot ==
    /\ pc = "poll_spot"
    /\ pc' = IF After(spotLastUpdated, updateStarted) THEN "render" ELSE "sleep"
    /\ UNCHANGED <<renderVars, mainVars>>

\* lines 62-63: the log line and the sleep of one second
Sleep ==
    /\ pc = "sleep"
    /\ clock < MaxClock
    /\ logged' = "waiting on pricing update..."
    /\ clock' = clock + 1
    /\ pc' = "poll"
    /\ UNCHANGED <<renderVars, nargs, exitCode, heapFile, outFile, providerBuilt,
                   updateStarted, onDemandLastUpdated, spotLastUpdated, renderCount>>

\* lines 66-77: the header, the provider's instance types, sorted, and the
\* call of writePricing, in which log.Fatalf may end the process
Render ==
    /\ pc = "render"
    /\ \E types \in SeqsUpTo(ProviderTypes, MaxTypes) :
       \E onDemandPrice \in Lookups(Range(types)) :
          LET sorted == SortStrings(types)
              st == WritePricing(Header(clock), sorted, InitialOnDemandPrices,
                                 onDemandPrice)
          IN  /\ instanceNames' = SortStrings(sorted)   \* line 96 sorts in place
              /\ getPrice' = onDemandPrice
              /\ src' = st.src
              /\ lineLen' = st.lineLen
              /\ previousFamily' = st.previousFamily
              /\ stdout' = stdout \o st.stdout
              /\ IF st.fatal
                 THEN Fatal("parsing instance family")
                 ELSE /\ pc' = "format"
                      /\ UNCHANGED <<logged, exitCode>>
    /\ renderCount' = renderCount + 1
    /\ UNCHANGED <<idx, call, nargs, heapFile, outFile, providerBuilt,
                   updateStarted, clock, onDemandLastUpdated, spotLastUpdated>>

Format_LogsAndGoesOn ==
    /\ pc = "format"
    /\ \E ok \in BOOLEAN :
          /\ logged' = IF ok THEN logged ELSE "formatting generated source"
          /\ pc' = "write"
          /\ UNCHANGED exitCode
    /\ UNCHANGED <<renderVars, nargs, heapFile, outFile, providerBuilt,
                   updateStarted, clock, onDemandLastUpdated, spotLastUpdated,
                   renderCount>>

\* lines 79-82: format.Source, which fails on source it cannot parse
Format ==
    /\ pc = "format"
    /\ \E ok \in BOOLEAN :
          IF ok
          THEN /\ pc' = "write"
               /\ UNCHANGED <<logged, exitCode>>
          ELSE Fatal("formatting generated source")
    /\ UNCHANGED <<renderVars, nargs, heapFile, outFile, providerBuilt,
                   updateStarted, clock, onDemandLastUpdated, spotLastUpdated,
                   renderCount>>

\* lines 84-86: ioutil.WriteFile; a failed write may have left a part of the
\* file behind
WriteFile ==
    /\ pc = "write"
    /\ \/ /\ outFile' = "written"
          /\ pc' = "profile"
          /\ UNCHANGED <<logged, exitCode>>
       \/ /\ outFile' \in {"absent", "partial"}
          /\ Fatal("writing output")
    /\ UNCHANGED <<renderVars, nargs, heapFile, providerBuilt, updateStarted,
                   clock, onDemandLastUpdated, spotLastUpdated, renderCount>>

\* lines 87-91: the heap profile, which may fail, and the return from main
WriteHeapProfile ==
    /\ pc = "profile"
    /\ \E ok \in BOOLEAN :
          IF ok
          THEN /\ heapFile' = "written"
               /\ exitCode' = 0
               /\ pc' = "exited"
               /\ UNCHANGED logged
          ELSE /\ Fatal("could not write memory profile")
               /\ UNCHANGED heapFile
    /\ UNCHANGED <<renderVars, nargs, outFile, providerBuilt, updateStarted,
                   clock, onDemandLastUpdated, spotLastUpdated, renderCount>>

\* time passes while the process runs
Tick ==
    /\ pc \notin {"main", "exited"}
    /\ clock < MaxClock
    /\ clock' = clock + 1
    /\ UNCHANGED <<pc, renderVars, nargs, exitCode, logged, heapFile, outFile,
                   providerBuilt, updateStarted, onDemandLastUpdated,
                   spotLastUpdated, renderCount>>

\* the provider's background refresh completes an on-demand price update
UpdateOnDemand ==
    /\ providerBuilt
    /\ pc # "exited"
    /\ onDemandLastUpdated' = clock
    /\ UNCHANGED <<pc, renderVars, nargs, exitCode, logged, heapFile, outFile,
                   providerBuilt, updateStarted, clock, spotLastUpdated,
                   renderCount>>

\* the provider's background refresh completes a spot price update
UpdateSpot ==
    /\ providerBuilt
    /\ pc # "exited"
    /\ spotLastUpdated' = clock
    /\ UNCHANGED <<pc, renderVars, nargs, exitCode, logged, heapFile, outFile,
                   providerBuilt, updateStarted, clock, onDemandLastUpdated,
                   renderCount>>

Next ==
    \/ ParseArgs \/ CreateProfile \/ NewProvider
    \/ PollOnDemand \/ PollSpot \/ Sleep
    \/ Render \/ Format \/ WriteFile \/ WriteHeapProfile
    \/ Tick \/ UpdateOnDemand \/ UpdateSpot

Spec == Init /\ [][Next]_vars

\* ------------------------------------------------- reading the output back
\* what the call under test has appended to the buffer it was handed
Appended == SubSeq(src, Len(call.src) + 1, Len(src))

\* the lines of a text: the pieces between its line breaks
Lines(text) == Split(text, NL)

\* the quoted strings of a text, in order: the keys of the entries
Keys(text) ==
    LET q == Positions(text, Quote)
    IN  [j \in 1..(Len(q) \div 2) |-> SubSeq(text, q[2 * j - 1] + 1, q[2 * j] - 1)]

IsComment(line) == Len(line) >= 2 /\ line[1] = Slash /\ line[2] = Slash

\* the family a comment line "// <family> family" names
CommentFamily(line) ==
    SubSeq(line, Len(CommentPrefix) + 1, Len(line) - (Len(CommentSuffix) - 1))

\* the families of the comment lines of a text, in order
CommentFamilies(text) ==
    LET ls == SelectSeq(Lines(text), IsComment)
    IN  [i \in 1..Len(ls) |-> CommentFamily(ls[i])]

FamilyOf(instanceName) == Split(instanceName, Dot)[1]

WellFormed(instanceName) == Len(Split(instanceName, Dot)) = 2

\* the number of bytes after the last line break of a text
CharsSinceBreak(text) ==
    LET at == Positions(text, NL)
    IN  IF Len(at) = 0 THEN Len(text) ELSE Len(text) - Last(at)

\* the width of the last entry of a line of entries: from its opening quote
\* to the end of the line
LastEntryWidth(line) ==
    LET q == Positions(line, Quote) IN Len(line) - q[Len(q) - 1] + 1

InWritePricing == pc \in {"wp_loop", "wp_done", "wp_fatal"}

\* the names of the call in another order
Reordered(names, f) == [i \in 1..Len(names) |-> names[f[i]]]

Without(names, x) == SelectSeq(names, LAMBDA n : n # x)

NoDuplicates(s) == \A i, j \in 1..Len(s) : i # j => s[i] # s[j]

\* ------------------------------------------------------------------ claims
\* C1: writePricing does not depend on the order of its input: called on any
\* permutation of the same well-formed names, with the same varName and the
\* same getPrice, it appends the same bytes.
C1_OrderIndependent ==
    pc = "wp_done" =>
        \A f \in Permutations(1..Len(call.instanceNames)) :
            LET st == WritePricing(call.src, Reordered(call.instanceNames, f),
                                   call.varName, getPrice)
            IN  st.src = src /\ ~st.fatal

C1_Witness ==
    /\ pc = "wp_done"
    /\ Len(call.instanceNames) >= 2
    /\ call.instanceNames # instanceNames
    /\ Len(Keys(Appended)) >= 2

\* C2 as stated: the entries of the output are in strictly ascending order of
\* identifier, whatever the input sequence, repeated identifiers included.
C2_StrictlyAscending ==
    InWritePricing =>
        LET keys == Keys(Appended)
        IN  \A i \in 1..(Len(keys) - 1) : LexLess(keys[i], keys[i + 1])

\* C2 as amended: the entries of the output are in ascending order of
\* identifier, an identifier the input repeats being emitted once per
\* occurrence; the order is strict when the input repeats no identifier.
C2_Ascending ==
    InWritePricing =>
        LET keys == Keys(Appended)
        IN  /\ \A i \in 1..(Len(keys) - 1) : ~LexLess(keys[i + 1], keys[i])
            /\ NoDuplicates(call.instanceNames) =>
                   \A i \in 1..(Len(keys) - 1) : LexLess(keys[i], keys[i + 1])
            /\ pc = "wp_done" =>
                   keys = SelectSeq(instanceNames, LAMBDA n : ~getPrice[n].err)

C2_Witness ==
    /\ pc = "wp_done"
    /\ call.instanceNames # instanceNames
    /\ LET keys == Keys(Appended)
       IN  Len(keys) = 3 /\ keys[1] = keys[2] /\ keys[2] # keys[3]

\* C3: a well-formed identifier whose lookup fails gets no entry and raises no
\* error, the loop goes on, and the output is what it would be had the
\* identifier been absent from the input; its iteration changes neither the
\* buffer nor previousFamily nor lineLen.
C3_FailedLookupAsAbsent ==
    /\ [](pc \in {"wp_done", "wp_fatal"} =>
            \A x \in Range(call.instanceNames) :
                (WellFormed(x) /\ getPrice[x].err) =>
                    LET st == WritePricing(call.src, Without(call.instanceNames, x),
                                           call.varName, getPrice)
                    IN  /\ st.src = src
                        /\ st.fatal = (pc = "wp_fatal")
                        /\ x \notin Range(Keys(Appended)))
    /\ [][(/\ pc = "wp_loop"
           /\ idx <= Len(instanceNames)
           /\ WellFormed(instanceNames[idx])
           /\ getPrice[instanceNames[idx]].err)
          => /\ pc' = "wp_loop"
             /\ idx' = idx + 1
             /\ UNCHANGED <<src, lineLen, previousFamily, exitCode, logged>>]_vars

C3_Witness ==
    /\ pc = "wp_done"
    /\ \E x, y \in Range(call.instanceNames) :
          /\ getPrice[x].err
          /\ ~getPrice[y].err
          /\ FamilyOf(x) # FamilyOf(y)
          /\ LexLess(x, y)

\* the entries of the lines from i on lie under the comment of their family
RECURSIVE GroupedFrom(_, _, _)
GroupedFrom(lines, i, current) ==
    IF i > Len(lines) THEN TRUE
    ELSE IF IsComment(lines[i])
         THEN GroupedFrom(lines, i + 1, <<CommentFamily(lines[i])>>)
    ELSE /\ \A k \in Range(Keys(lines[i])) : current = <<FamilyOf(k)>>
         /\ GroupedFrom(lines, i + 1, current)

\* C5: the output has exactly one comment line "// <family> family" for each
\* family with an emitted entry and none for any other family, and every
\* entry lies after the comment of its family and before the next comment.
C5_OneCommentPerFamily ==
    pc = "wp_done" =>
        LET families == CommentFamilies(Appended)
        IN  /\ NoDuplicates(families)
            /\ Range(families) = {FamilyOf(n) : n \in Range(Keys(Appended))}
            /\ GroupedFrom(Lines(Appended), 1, <<>>)

\* C6: at the start of every iteration lineLen is at most 80 and is the number
\* of bytes written since the last line break, and no line of entries is
\* longer than 80 plus the width of the last entry on it.
C6_LineWrapBound ==
    /\ pc = "wp_loop" => lineLen <= WrapAt /\ lineLen = CharsSinceBreak(src)
    /\ InWritePricing =>
          \A line \in Range(Lines(Appended)) :
              Len(Keys(line)) > 0 => Len(line) <= WrapAt + LastEntryWidth(line)

C6_Witness ==
    /\ pc = "wp_loop"
    /\ lineLen > 0
    /\ \E line \in Range(Lines(Appended)) : Len(Keys(line)) = 2 /\ Len(line) > WrapAt

HasMalformed(names) == \E n \in Range(names) : ~WellFormed(n)

EndsWith(text, suffix) ==
    /\ Len(text) >= Len(suffix)
    /\ SubSeq(text, Len(text) - Len(suffix) + 1, Len(text)) = suffix

\* C4: when the input holds an identifier that does not split into exactly
\* two segments, the process ends with a fatal error inside writePricing,
\* wherever the identifier sorts and whether or not its lookup would fail,
\* and the output file is never written.
C4_MalformedAborts ==
    (renderCount > 0 /\ HasMalformed(instanceNames)) =>
        /\ pc = "exited"
        /\ exitCode = 1
        /\ logged = "parsing instance family"
        /\ outFile = "absent"
        /\ ~EndsWith(src, Closing \o <<NL>>)

C4_Witness ==
    /\ pc = "exited"
    /\ renderCount = 1
    /\ Len(instanceNames) = 2
    /\ ~WellFormed(instanceNames[1])
    /\ WellFormed(instanceNames[2])
    /\ getPrice[instanceNames[1]].err
    /\ ~getPrice[instanceNames[2]].err

Updated == onDemandLastUpdated > updateStarted /\ spotLastUpdated > updateStarted

Waiting == {"poll", "poll_spot", "sleep"}

\* C7: main calls writePricing at most once, and only when both timestamps
\* are after updateStarted; while one of them is not, the poll loop goes on
\* waiting and nothing is rendered or written.
C7_NoRenderBeforeUpdates ==
    /\ [](renderCount <= 1)
    /\ []((renderCount > 0 \/ outFile # "absent"
           \/ pc \in {"render", "format", "write", "profile"}) => Updated)
    /\ [][renderCount' # renderCount => (Updated /\ Updated')]_vars
    /\ [][(pc \in Waiting /\ ~Updated) =>
            (pc' \in Waiting /\ renderCount' = 0 /\ outFile' = "absent")]_vars

C7_Witness ==
    /\ pc = "format"
    /\ renderCount = 1
    /\ logged = "waiting on pricing update..."
    /\ onDemandLastUpdated # spotLastUpdated

\* C8: with any number of positional arguments other than one, main prints
\* the usage message and exits with status 1; no file is created or written
\* and no provider is constructed or polled.
C8_UsageError ==
    (nargs # 1 /\ pc # "main") =>
        /\ pc = "exited"
        /\ exitCode = 1
        /\ logged = "Usage"
        /\ outFile = "absent"
        /\ heapFile = "absent"
        /\ ~providerBuilt
        /\ renderCount = 0

C8_Witness == pc = "exited" /\ nargs > 1 /\ logged = "Usage"

FatalMessages == {"Usage", "formatting generated source", "writing output",
                  "parsing instance family"}

\* C9 as stated: the exit status is 0 whenever the source was formatted and
\* written without error, it is not 0 after a usage error, a formatting
\* failure, a write failure or a malformed identifier, and after a formatting
\* failure or a malformed identifier the output file is not written.
C9_ExitCodes ==
    pc = "exited" =>
        /\ outFile = "written" => exitCode = 0
        /\ logged \in FatalMessages => exitCode # 0
        /\ logged \in {"formatting generated source", "parsing instance family"}
               => outFile = "absent"

\* C9 as amended: the exit status is 0 whenever the source was formatted and
\* written and the heap profile was then written without error; it is not 0
\* after a usage error, a heap profile that cannot be created or written, a
\* formatting failure, a write failure or a malformed identifier; and after a
\* formatting failure or a malformed identifier the output file is not
\* written.
C9_ExitCodesWithProfile ==
    pc = "exited" =>
        /\ (outFile = "written" /\ heapFile = "written") => exitCode = 0
        /\ logged \in FatalMessages
               \cup {"could not create memory profile",
                     "could not write memory profile"}
               => exitCode # 0
        /\ logged \in {"formatting generated source", "parsing instance family"}
               => outFile = "absent"

C9_Witness ==
    /\ pc = "exited"
    /\ outFile = "written"
    /\ exitCode = 1
    /\ logged = "could not write memory profile"

====
